---- MODULE Spec2Model ----
(***************************************************************************)
(* Housing market simulation: the breed scheduler (src/model/schedule.py)  *)
(* and the agents Person, Firm, Realtor, Bid, Allocation                   *)
(* (src/model/agents.py).                                                  *)
(*                                                                         *)
(* Objects are addressed by unique_id.  An agent reference is a record     *)
(* [breed, unique_id, obj]; obj tells two Python objects with the same     *)
(* class and unique_id apart.  A Python dict is a function whose DOMAIN is *)
(* its key set; a defaultdict is a sequence of [key, value] records in key *)
(* insertion order, and reading a missing key appends it.                  *)
(***************************************************************************)
EXTENDS Integers, Sequences, FiniteSets, TLC

\* Python's None where a unique_id is expected (unique_ids start at 1)
None == 0

\* ------------------------------------------------------------------ bounds
NumLand == 2          \* Land parcels
NumResident == 2      \* Persons the model starts with, the i-th at Land i
NumNewcomer == 2      \* Persons create_newcomer can still make
MaxId == 2            \* unique_ids of the scheduler interface model
MaxObj == 2           \* objects per (class, unique_id) there
MaxSteps == 2         \* ticks
MaxBids == 2          \* bids in the bid book, in the simulation
MaxPrice == 2         \* bid prices 1..MaxPrice, in the simulation
BookBids == 3         \* bids in the bid book, in the auction
BookPrice == 3        \* bid prices 1..BookPrice, in the auction
MaxPremium == 2       \* wage premiums 1..MaxPremium
MaxOwned == 3         \* length of a properties_owned list
RngMod == 6           \* states of the random source
MaxDensity == 2       \* firm.density up to MaxDensity

\* --------------------------------------------------- model parameters
WorkingPeriods == 1   \* model.working_periods
SavingsPerStep == 1   \* model.savings_per_step

\* ------------------------------------------------------- scheduler state
VARIABLES
    agents,           \* RandomActivation._agents: unique_id -> agent
    agents_by_breed,  \* defaultdict(dict): <<[breed, members]>> in key order
    steps,            \* scheduler.steps
    time,             \* scheduler.time
    last,             \* the call just made: [op, arg, err]
    first_added,      \* history: breeds in the order of their first add()
    first_seen,       \* history: breeds in the order of first use as a key
    \* ---- workforce registry (model.workforce)
    newcomers, workers, retiring,
    removed_agents,   \* model.removed_agents
    next_person,      \* unique_id the next created Person gets
    \* ---- Person fields, by unique_id
    residence, properties_owned, working_period, count, savings,
    \* ---- Land fields, by unique_id
    owner, resident,
    \* ---- Firm
    wage_premium,
    \* ---- Realtor
    sale_listing,
    bids,             \* defaultdict(list): <<[property, bids]>> in key order
    allocations       \* the list sell_homes built in the call just made

vars == <<agents, agents_by_breed, steps, time, last, first_added, first_seen,
          newcomers, workers, retiring, removed_agents, next_person,
          residence, properties_owned, working_period, count, savings,
          owner, resident, wage_premium, sale_listing, bids, allocations>>

\* ------------------------------------------------------------ the objects
LandIds == 1..NumLand
NumPerson == NumResident + NumNewcomer
PersonIds == (NumLand + 1)..(NumLand + NumPerson)
ResidentIds == (NumLand + 1)..(NumLand + NumResident)
FirmId == NumLand + NumPerson + 1
RealtorId == NumLand + NumPerson + 2
BankId == NumLand + NumPerson + 3
InvestorId == NumLand + NumPerson + 4

Ref(b, id) == [breed |-> b, unique_id |-> id, obj |-> 1]

\* the argument recorded for a call that names a breed, or nothing
BreedArg(b) == [breed |-> b, unique_id |-> 0, obj |-> 0]
NoArg == BreedArg("")

Breeds == {"Land", "Firm", "Person", "Realtor", "Bank", "Investor"}

SchedBreeds == {"Land", "Person"}
SchedAgents == [breed : SchedBreeds, unique_id : 1..MaxId, obj : 1..MaxObj]

EmptyDict == [k \in {} |-> None]

\* d[k] = v on a dict
DictSet(d, k, v) == [x \in DOMAIN d \cup {k} |-> IF x = k THEN v ELSE d[x]]

\* del d[k] on a dict that has k
DictDel(d, k) == [x \in DOMAIN d \ {k} |-> d[x]]

BreedKeys(abb) == [i \in 1..Len(abb) |-> abb[i].breed]

HasBreed(abb, b) == \E i \in 1..Len(abb) : abb[i].breed = b

\* defaultdict.__getitem__: a missing key is inserted, at the end, with dict()
Touch(abb, b) ==
    IF HasBreed(abb, b) THEN abb
    ELSE Append(abb, [breed |-> b, members |-> EmptyDict])

\* the partition of breed b (the empty dict when b has no key)
Members(abb, b) ==
    IF HasBreed(abb, b)
    THEN (CHOOSE e \in {abb[i] : i \in 1..Len(abb)} : e.breed = b).members
    ELSE EmptyDict

SetMembers(abb, b, m) ==
    [i \in 1..Len(abb) |->
        IF abb[i].breed = b THEN [breed |-> b, members |-> m] ELSE abb[i]]

\* RandomActivationByBreed.add, on the scheduler fields of a state record
SchedAdd(s, a) ==
    LET abb == Touch(s.agents_by_breed, a.breed) IN
    [s EXCEPT
        !.agents = DictSet(s.agents, a.unique_id, a),
        !.agents_by_breed =
            SetMembers(abb, a.breed, DictSet(Members(abb, a.breed), a.unique_id, a)),
        !.err = "none"]

\* faulty variant: remove() without the del on the breed partition
SchedRemoveRegistryOnly(s, a) ==
    IF a.unique_id \notin DOMAIN s.agents
    THEN [s EXCEPT !.err = "KeyError"]
    ELSE [s EXCEPT !.agents = DictDel(s.agents, a.unique_id), !.err = "none"]

\* RandomActivationByBreed.remove: the first del raises before anything is
\* changed; the second del raises after the first one took effect
SchedRemove(s, a) ==
    IF a.unique_id \notin DOMAIN s.agents
    THEN [s EXCEPT !.err = "KeyError"]
    ELSE LET abb == Touch(s.agents_by_breed, a.breed)
             s1 == [s EXCEPT !.agents = DictDel(s.agents, a.unique_id),
                             !.agents_by_breed = abb]
         IN IF a.unique_id \notin DOMAIN Members(abb, a.breed)
            THEN [s1 EXCEPT !.err = "KeyError"]
            ELSE [s1 EXCEPT
                    !.agents_by_breed =
                        SetMembers(abb, a.breed, DictDel(Members(abb, a.breed), a.unique_id)),
                    !.err = "none"]

\* ------------------------------------------------------------ state record
\* The operations are functions on a record of the program state; err is the
\* exception the running call has raised ("none" while it has raised nothing).
\* With tracing set, passes collects the breed passes the running call
\* starts, each with the keys of the breed at that moment, and log the agents
\* whose step() it invokes, each with the number of the pass invoking it.
World ==
    [agents |-> agents, agents_by_breed |-> agents_by_breed,
     steps |-> steps, time |-> time,
     first_added |-> first_added, first_seen |-> first_seen,
     newcomers |-> newcomers, workers |-> workers, retiring |-> retiring,
     removed_agents |-> removed_agents, next_person |-> next_person,
     residence |-> residence, properties_owned |-> properties_owned,
     working_period |-> working_period, count |-> count, savings |-> savings,
     owner |-> owner, resident |-> resident, wage_premium |-> wage_premium,
     sale_listing |-> sale_listing, bids |-> bids, allocations |-> <<>>,
     err |-> "none", tracing |-> FALSE, passes |-> <<>>, log |-> <<>>]

Traced == [World EXCEPT !.tracing = TRUE]

SetWorld(w, op, arg) ==
    /\ agents' = w.agents
    /\ agents_by_breed' = w.agents_by_breed
    /\ steps' = w.steps
    /\ time' = w.time
    /\ first_added' = w.first_added
    /\ first_seen' = w.first_seen
    /\ newcomers' = w.newcomers
    /\ workers' = w.workers
    /\ retiring' = w.retiring
    /\ removed_agents' = w.removed_agents
    /\ next_person' = w.next_person
    /\ residence' = w.residence
    /\ properties_owned' = w.properties_owned
    /\ working_period' = w.working_period
    /\ count' = w.count
    /\ savings' = w.savings
    /\ owner' = w.owner
    /\ resident' = w.resident
    /\ wage_premium' = w.wage_premium
    /\ sale_listing' = w.sale_listing
    /\ bids' = w.bids
    /\ allocations' = w.allocations
    /\ last' = [op |-> op, arg |-> arg, err |-> w.err]

\* --------------------------------------------------------------- workforce
\* Workforce.remove_from_all(agent)
RemoveFromAll(s, p) ==
    [s EXCEPT !.newcomers = @ \ {p}, !.workers = @ \ {p}, !.retiring = @ \ {p}]

\* ------------------------------------------------------------------ Person
\* Land.transport_cost: distance from the centre times the cost per distance
transport_cost == [l \in LandIds |-> l]

\* x in list
InList(x, list) == \E i \in 1..Len(list) : list[i] = x

\* list.remove(x) on a list that holds x: the first occurrence goes
ListRemove(list, x) ==
    LET i == CHOOSE j \in 1..Len(list) :
                 list[j] = x /\ \A k \in 1..(j - 1) : list[k] # x
    IN SubSeq(list, 1, i - 1) \o SubSeq(list, i + 1, Len(list))

\* faulty variant: remove() without the schedule.remove(self) call
PersonRemoveStaysScheduled(s, p) ==
    RemoveFromAll([s EXCEPT !.removed_agents = @ + 1], p)

\* Person.remove
PersonRemove(s, p) ==
    LET s1 == [s EXCEPT !.removed_agents = @ + 1]
        s2 == RemoveFromAll(s1, p)
    IN SchedRemove(s2, Ref("Person", p))

\* faulty variant: a step that lists the residence of every retiring Person,
\* owned or not
PersonStepListsAnyResidence(s, p) ==
    LET s1 == [s EXCEPT !.count[p] = @ + 1, !.working_period[p] = @ + 1] IN
    IF p \in s1.newcomers
    THEN IF s1.residence[p] = None THEN PersonRemove(s1, p) ELSE s1
    ELSE IF s1.residence[p] # None /\ p \notin s1.retiring
    THEN LET s2 ==
               IF s1.working_period[p] > WorkingPeriods
               THEN [s1 EXCEPT !.retiring = @ \cup {p},
                               !.sale_listing = Append(@, s1.residence[p])]
               ELSE IF s1.wage_premium > transport_cost[s1.residence[p]]
                    THEN [s1 EXCEPT !.workers = @ \cup {p}]
                    ELSE [s1 EXCEPT !.workers = @ \ {p}]
         IN [s2 EXCEPT !.savings[p] = @ + SavingsPerStep]
    ELSE s1

\* faulty variant: a Person that works only while no other Person does
PersonStepOneJob(s, p) ==
    LET s1 == [s EXCEPT !.count[p] = @ + 1, !.working_period[p] = @ + 1] IN
    IF p \in s1.newcomers
    THEN IF s1.residence[p] = None
         THEN IF s1.count[p] > 0 THEN PersonRemove(s1, p) ELSE s1
         ELSE s1
    ELSE IF s1.residence[p] # None /\ p \notin s1.retiring
    THEN LET s2 ==
               IF s1.working_period[p] > WorkingPeriods
               THEN LET r == [s1 EXCEPT !.retiring = @ \cup {p}] IN
                    IF InList(r.residence[p], r.properties_owned[p])
                    THEN [r EXCEPT !.sale_listing = Append(@, r.residence[p])]
                    ELSE r
               ELSE IF s1.wage_premium > transport_cost[s1.residence[p]]
                       /\ s1.workers \ {p} = {}
                    THEN [s1 EXCEPT !.workers = @ \cup {p}]
                    ELSE [s1 EXCEPT !.workers = @ \ {p}]
         IN [s2 EXCEPT !.savings[p] = @ + SavingsPerStep]
    ELSE s1

\* faulty variant: a Person whose wage premium equals its transport cost works
PersonStepWorksAtEquality(s, p) ==
    LET s1 == [s EXCEPT !.count[p] = @ + 1, !.working_period[p] = @ + 1] IN
    IF p \in s1.newcomers
    THEN IF s1.residence[p] = None
         THEN IF s1.count[p] > 0 THEN PersonRemove(s1, p) ELSE s1
         ELSE s1
    ELSE IF s1.residence[p] # None /\ p \notin s1.retiring
    THEN LET s2 ==
               IF s1.working_period[p] > WorkingPeriods
               THEN LET r == [s1 EXCEPT !.retiring = @ \cup {p}] IN
                    IF InList(r.residence[p], r.properties_owned[p])
                    THEN [r EXCEPT !.sale_listing = Append(@, r.residence[p])]
                    ELSE r
               ELSE IF s1.wage_premium >= transport_cost[s1.residence[p]]
                    THEN [s1 EXCEPT !.workers = @ \cup {p}]
                    ELSE [s1 EXCEPT !.workers = @ \ {p}]
         IN [s2 EXCEPT !.savings[p] = @ + SavingsPerStep]
    ELSE s1

\* Person.step
PersonStep(s, p) ==
    LET s1 == [s EXCEPT !.count[p] = @ + 1, !.working_period[p] = @ + 1] IN
    IF p \in s1.newcomers
    THEN IF s1.residence[p] = None
         THEN IF s1.count[p] > 0 THEN PersonRemove(s1, p) ELSE s1
         ELSE s1
    ELSE IF s1.residence[p] # None /\ p \notin s1.retiring
    THEN LET s2 ==
               IF s1.working_period[p] > WorkingPeriods
               THEN LET r == [s1 EXCEPT !.retiring = @ \cup {p}] IN
                    IF InList(r.residence[p], r.properties_owned[p])
                    THEN [r EXCEPT !.sale_listing = Append(@, r.residence[p])]
                    ELSE r
               ELSE IF s1.wage_premium > transport_cost[s1.residence[p]]
                    THEN [s1 EXCEPT !.workers = @ \cup {p}]
                    ELSE [s1 EXCEPT !.workers = @ \ {p}]
         IN [s2 EXCEPT !.savings[p] = @ + SavingsPerStep]
    ELSE s1

\* Firm.step: the wage recurrence is real-valued; w is the wage premium it
\* arrives at
FirmStep(s, w) == [s EXCEPT !.wage_premium = w]

\* the factor for a city in the corner of the grid
QuadrantFactor == 4

\* workforce.get_agent_count(workforce.workers)
GetAgentCount(agents_in_set) == Cardinality(agents_in_set)

\* faulty variant: the population without the fallback for zero
GetNWithoutFallback(s, density, center_city) ==
    IF center_city THEN density * GetAgentCount(s.workers)
    ELSE QuadrantFactor * density * GetAgentCount(s.workers)

\* Firm.get_N, the value Firm.step assigns to self.N
GetN(s, density, center_city) ==
    LET worker_agent_count == GetAgentCount(s.workers)
        N == IF center_city THEN density * worker_agent_count
             ELSE QuadrantFactor * density * worker_agent_count
    IN IF N = 0 THEN 1 ELSE N

\* Land.step appends to model.step_price_data, which is no part of this state
LandStep(s, l) == s

\* faulty variant: a Realtor whose step schedules the next Person
RealtorStepSchedulesPerson(s) ==
    IF s.next_person \in PersonIds
    THEN SchedAdd([s EXCEPT !.next_person = @ + 1], Ref("Person", s.next_person))
    ELSE s

\* faulty variant: a Realtor whose step moves the residents out of the Lands
\* on sale
RealtorStepVacatesListed(s) ==
    [s EXCEPT !.resident =
        [l \in DOMAIN @ |-> IF InList(l, s.sale_listing) THEN None ELSE @[l]]]

\* Realtor.step
RealtorStep(s) == s

\* getattr(agent, 'step')(): dispatch on the agent's class
AgentStep(s, a, w) ==
    LET s1 == IF s.tracing
              THEN [s EXCEPT !.log = Append(@, [pass |-> Len(s.passes), agent |-> a])]
              ELSE s
    IN
    CASE a.breed = "Person" -> PersonStep(s1, a.unique_id)
      [] a.breed = "Firm" -> FirmStep(s1, w)
      [] a.breed = "Land" -> LandStep(s1, a.unique_id)
      [] a.breed = "Realtor" -> RealtorStep(s1)
      [] OTHER -> s1

\* ---------------------------------------------------------------- the pass
Perms(S) ==
    {q \in [1..Cardinality(S) -> S] :
        \A i, j \in 1..Cardinality(S) : i # j => q[i] # q[j]}

\* the for loop of step_breed over the shuffled keys; an exception ends it
RECURSIVE RunKeys(_, _, _, _, _)
RunKeys(s, b, keys, i, w) ==
    IF i > Len(keys) \/ s.err # "none" THEN s
    ELSE LET m == Members(s.agents_by_breed, b) IN
         IF keys[i] \notin DOMAIN m
         THEN [s EXCEPT !.err = "KeyError"]
         ELSE RunKeys(AgentStep(s, m[keys[i]], w), b, keys, i + 1, w)

\* faulty variant: a pass that calls step() on nobody
StepBreedVisitsNobody(s, b, w) ==
    LET s1 == [s EXCEPT !.agents_by_breed = Touch(@, b)] IN
    {IF s.tracing
     THEN [s1 EXCEPT !.passes =
              Append(@, [breed |-> b, keys |-> DOMAIN Members(s1.agents_by_breed, b)])]
     ELSE s1}

\* faulty variant: a breed pass that advances steps and time itself
StepBreedAdvancesClock(s, b, w) ==
    LET s1 == [s EXCEPT !.agents_by_breed = Touch(@, b)]
        agent_keys == DOMAIN Members(s1.agents_by_breed, b)
        s2 == IF s.tracing
              THEN [s1 EXCEPT !.passes = Append(@, [breed |-> b, keys |-> agent_keys])]
              ELSE s1
    IN {[RunKeys(s2, b, keys, 1, w) EXCEPT !.steps = @ + 1, !.time = @ + 1] :
            keys \in Perms(agent_keys)}

\* step_breed(breed), every outcome of the shuffle
StepBreedResults(s, b, w) ==
    LET s1 == [s EXCEPT !.agents_by_breed = Touch(@, b)]
        agent_keys == DOMAIN Members(s1.agents_by_breed, b)
        s2 == IF s.tracing
              THEN [s1 EXCEPT !.passes = Append(@, [breed |-> b, keys |-> agent_keys])]
              ELSE s1
    IN {RunKeys(s2, b, keys, 1, w) : keys \in Perms(agent_keys)}

\* the for loop of step(by_breed=True) from the i-th breed key on
RECURSIVE StepLoop(_, _, _)
StepLoop(s, i, w) ==
    IF i > Len(s.agents_by_breed) \/ s.err # "none" THEN {s}
    ELSE UNION {StepLoop(r, i + 1, w) :
                    r \in StepBreedResults(s, s.agents_by_breed[i].breed, w)}

\* step(by_breed=True)
StepResults(s, w) ==
    {IF r.err = "none" THEN [r EXCEPT !.steps = @ + 1, !.time = @ + 1] ELSE r :
        r \in StepLoop(s, 1, w)}

\* ------------------------------------------------- the seeded random source
\* list(d.keys()): the keys in insertion order.  Agents enter a partition
\* in ascending unique_id order (the Lands and residents at construction,
\* every later Person with the next free id) and a del keeps the order of
\* the rest, so the insertion order is the ascending order.
RECURSIVE KeyList(_)
KeyList(keys) ==
    IF keys = {} THEN <<>>
    ELSE LET k == CHOOSE x \in keys : \A y \in keys : x <= y
         IN <<k>> \o KeyList(keys \ {k})

\* the states of model.random; every draw moves it to the next state
RngStates == 0..(RngMod - 1)
NextRng(rng) == (rng + 1) % RngMod

\* random._randbelow(n): a number below n that the state determines
RandBelow(rng, n) == rng % n

\* random.shuffle(x): for i in reversed(range(1, len(x))):
\*     j = randbelow(i + 1); x[i], x[j] = x[j], x[i]
\* Positions are 1-based here: i runs from Len(x) down to 2.
RECURSIVE Shuffle(_, _, _)
Shuffle(x, i, rng) ==
    IF i < 2 THEN [list |-> x, rng |-> rng]
    ELSE LET j == RandBelow(rng, i) + 1
             swapped == [x EXCEPT ![i] = x[j], ![j] = x[i]]
         IN Shuffle(swapped, i - 1, NextRng(rng))

\* faulty variant: a pass whose order does not come from model.random
StepBreedUnseeded(s, b, w, rng) ==
    {[state |-> r, rng |-> rng] : r \in StepBreedResults(s, b, w)}

\* step_breed(breed) with model.random in state rng: the outcomes, each with
\* the state model.random is left in
StepBreedSeeded(s, b, w, rng) ==
    LET s1 == [s EXCEPT !.agents_by_breed = Touch(@, b)]
        agent_keys == KeyList(DOMAIN Members(s1.agents_by_breed, b))
        sh == Shuffle(agent_keys, Len(agent_keys), rng)
        s2 == IF s.tracing
              THEN [s1 EXCEPT !.passes =
                       Append(@, [breed |-> b, keys |-> sh.list])]
              ELSE s1
    IN {[state |-> RunKeys(s2, b, sh.list, 1, w), rng |-> sh.rng]}

\* the for loop of step(by_breed=True) from the i-th breed key on
RECURSIVE StepLoopSeeded(_, _, _, _)
StepLoopSeeded(s, i, w, rng) ==
    IF i > Len(s.agents_by_breed) \/ s.err # "none"
    THEN {[state |-> s, rng |-> rng]}
    ELSE UNION {StepLoopSeeded(r.state, i + 1, w, r.rng) :
                    r \in StepBreedSeeded(s, s.agents_by_breed[i].breed, w, rng)}

\* step(by_breed=True) with model.random in state rng
StepSeeded(s, w, rng) ==
    {[state |-> IF r.state.err = "none"
                THEN [r.state EXCEPT !.steps = @ + 1, !.time = @ + 1]
                ELSE r.state,
      rng |-> r.rng] : r \in StepLoopSeeded(s, 1, w, rng)}

\* step_time()
StepTime(s) == [s EXCEPT !.steps = @ + 1, !.time = @ + 1]

\* get_breed_count(breed_class): the lookup creates the key
GetBreedCount(s, b) == [s EXCEPT !.agents_by_breed = Touch(@, b)]

\* ----------------------------------------------------------------- Realtor
HasKey(book, l) == \E i \in 1..Len(book) : book[i].property = l

\* self.bids[property]: the lookup creates the key with an empty list
TouchBids(book, l) ==
    IF HasKey(book, l) THEN book
    ELSE Append(book, [property |-> l, bids |-> <<>>])

BidsOf(book, l) ==
    IF HasKey(book, l)
    THEN (CHOOSE e \in {book[i] : i \in 1..Len(book)} : e.property = l).bids
    ELSE <<>>

TotalBids(book) ==
    LET RECURSIVE Sum(_)
        Sum(i) == IF i = 0 THEN 0 ELSE Len(book[i].bids) + Sum(i - 1)
    IN Sum(Len(book))

\* Bid(bidder, property, price): mortgage defaults to 0
Bid(p, l, price) == [bidder |-> p, property |-> l, price |-> price, mortgage |-> 0]

\* Realtor.add_bid with a Person, a Land and a number
AddBid(s, p, l, price) ==
    LET book == TouchBids(s.bids, l) IN
    [s EXCEPT !.bids =
        [i \in 1..Len(book) |->
            IF book[i].property = l
            THEN [book[i] EXCEPT !.bids = Append(@, Bid(p, l, price))]
            ELSE book[i]]]

\* an argument for price: a number (int or float) or anything else
Number(v) == [numeric |-> TRUE, value |-> v]
NotANumber == [numeric |-> FALSE, value |-> 0]

\* faulty variant: add_bid without the isinstance tests
AddBidUnchecked(s, bidder, property, price) ==
    AddBid(s, bidder.unique_id, property.unique_id, price.value)

\* Realtor.add_bid(bidder, property, price) with any arguments: the
\* isinstance tests of add_bid and of Bid.__init__ come before the append
RealtorAddBid(s, bidder, property, price) ==
    IF bidder.breed # "Person" THEN [s EXCEPT !.err = "ValueError"]
    ELSE IF property.breed # "Land" THEN [s EXCEPT !.err = "ValueError"]
    ELSE IF ~price.numeric THEN [s EXCEPT !.err = "ValueError"]
    ELSE AddBid(s, bidder.unique_id, property.unique_id, price.value)

\* ------------------------------------------------------------- Person.bid
\* get_max_mortgage_share() returns 0.8 = ShareNum / ShareDen
ShareNum == 4
ShareDen == 5

Min(x, y) == IF x <= y THEN x ELSE y

\* What Person.bid computes for one property.  rnt is R_NT, the property's
\* net rent capitalised over the mortgage period, den the Bank's denominator
\* (1 - m) * r_target / delta ** T - p_dot, S the savings and M the maximal
\* mortgage.  A zero denominator raises with Python floats; with numpy
\* floats (ieee) the quotient is inf, nan or -inf, and then `m * P_max < m`
\* is false for inf and nan, and min(M + S, P_max) is M + S.  The result is
\* ShareDen times P_bid, so that m * P_max stays an integer.
BidPrice(rnt, den, S, M, ieee) ==
    IF den = 0
    THEN IF ~ieee THEN [err |-> "ZeroDivisionError", price5 |-> 0]
         ELSE IF rnt >= 0 THEN [err |-> "none", price5 |-> ShareDen * (M + S)]
         ELSE [err |-> "none", price5 |-> -1]
    ELSE LET P_max_bid == rnt \div den IN
         IF ShareNum * P_max_bid < ShareNum
         THEN [err |-> "none",
               price5 |-> Min(ShareNum * P_max_bid + ShareDen * S,
                              ShareDen * P_max_bid)]
         ELSE [err |-> "none",
               price5 |-> ShareDen * Min(M + S, P_max_bid)]

\* the for loop of Person.bid over sale_listing from its i-th entry on; an
\* exception ends it
\* faulty variant: a bid is submitted unless its price is negative
RECURSIVE BidLoopFromZero(_, _, _, _, _, _, _)
BidLoopFromZero(s, p, i, rnt, den, M, ieee) ==
    IF i > Len(s.sale_listing) \/ s.err # "none" THEN s
    ELSE LET l == s.sale_listing[i]
             b == BidPrice(rnt[l], den, s.savings[p], M, ieee)
         IN IF b.err # "none" THEN [s EXCEPT !.err = b.err]
            ELSE IF b.price5 >= 0
            THEN BidLoopFromZero(AddBid(s, p, l, b.price5 \div ShareDen),
                                 p, i + 1, rnt, den, M, ieee)
            ELSE BidLoopFromZero(s, p, i + 1, rnt, den, M, ieee)

RECURSIVE BidLoop(_, _, _, _, _, _, _)
BidLoop(s, p, i, rnt, den, M, ieee) ==
    IF i > Len(s.sale_listing) \/ s.err # "none" THEN s
    ELSE LET l == s.sale_listing[i]
             b == BidPrice(rnt[l], den, s.savings[p], M, ieee)
         IN IF b.err # "none" THEN [s EXCEPT !.err = b.err]
            ELSE IF b.price5 > 0
            THEN BidLoop(AddBid(s, p, l, b.price5 \div ShareDen),
                         p, i + 1, rnt, den, M, ieee)
            ELSE BidLoop(s, p, i + 1, rnt, den, M, ieee)

\* Person.bid
PersonBid(s, p, rnt, den, M, ieee) == BidLoop(s, p, 1, rnt, den, M, ieee)

\* list.sort(key=price, reverse=True): stable, so bids of equal price keep
\* the order they were appended in
\* faulty variant: a sort that puts a bid before the earlier bids of its price
RECURSIVE InsertBidBeforeEquals(_, _)
InsertBidBeforeEquals(sorted, b) ==
    IF sorted = <<>> THEN <<b>>
    ELSE IF Head(sorted).price > b.price
         THEN <<Head(sorted)>> \o InsertBidBeforeEquals(Tail(sorted), b)
         ELSE <<b>> \o sorted

RECURSIVE InsertBid(_, _)
InsertBid(sorted, b) ==
    IF sorted = <<>> THEN <<b>>
    ELSE IF Head(sorted).price >= b.price
         THEN <<Head(sorted)>> \o InsertBid(Tail(sorted), b)
         ELSE <<b>> \o sorted

\* faulty variant: the sort without reverse=True
RECURSIVE InsertBidAscending(_, _)
InsertBidAscending(sorted, b) ==
    IF sorted = <<>> THEN <<b>>
    ELSE IF Head(sorted).price <= b.price
         THEN <<Head(sorted)>> \o InsertBidAscending(Tail(sorted), b)
         ELSE <<b>> \o sorted

RECURSIVE SortBidsAscending(_)
SortBidsAscending(list) ==
    IF list = <<>> THEN <<>>
    ELSE InsertBidAscending(SortBidsAscending(SubSeq(list, 1, Len(list) - 1)),
                            list[Len(list)])

RECURSIVE SortBids(_)
SortBids(list) ==
    IF list = <<>> THEN <<>>
    ELSE InsertBid(SortBids(SubSeq(list, 1, Len(list) - 1)), list[Len(list)])

\* Allocation(property, highest_bid.bidder, highest_bid.price, second, final)
Allocation(l, property_bids) ==
    [property |-> l,
     successful_bidder |-> property_bids[1].bidder,
     highest_bid |-> property_bids[1].price,
     second_highest_bid |->
         IF Len(property_bids) > 1 THEN property_bids[2].price ELSE 0,
     final_price |-> property_bids[1].price]

\* Realtor.transfer_property: the buyer's list grows before the seller's list
\* is touched, and the owner is set last
TransferProperty(s, seller, buyer, l) ==
    LET s1 == [s EXCEPT !.properties_owned[buyer] = Append(@, l)] IN
    IF seller = None THEN [s1 EXCEPT !.err = "AttributeError"]
    ELSE IF ~InList(l, s1.properties_owned[seller])
    THEN [s1 EXCEPT !.err = "ValueError"]
    ELSE [s1 EXCEPT !.properties_owned[seller] = ListRemove(@, l),
                    !.owner[l] = buyer]

\* Realtor.handle_person_purchase
HandlePersonPurchase(s, buyer, l) ==
    [s EXCEPT !.resident[l] = buyer,
              !.residence[buyer] = l,
              !.newcomers = @ \ {buyer}]

\* faulty variant: a seller that is never removed
HandleSellerStays(s, seller) == s

\* Realtor.handle_seller_departure
HandleSellerDeparture(s, seller) ==
    IF seller \in s.retiring THEN PersonRemove(s, seller) ELSE s

\* the body of the for loop of complete_transactions, for one allocation
SettleOne(s, a) ==
    LET buyer == a.successful_bidder
        seller == s.owner[a.property]
        s1 == TransferProperty(s, seller, buyer, a.property)
    IN IF s1.err # "none" THEN s1
       ELSE HandleSellerDeparture(HandlePersonPurchase(s1, buyer, a.property), seller)

\* Realtor.complete_transactions: an exception ends the loop
RECURSIVE CompleteTransactions(_, _, _)
CompleteTransactions(s, allocs, i) ==
    IF i > Len(allocs) \/ s.err # "none" THEN s
    ELSE CompleteTransactions(SettleOne(s, allocs[i]), allocs, i + 1)

\* Realtor.sell_homes: every bid list is sorted in place, an Allocation is
\* built for every key with a bid, the allocations are settled, and the bid
\* book is cleared once settlement returned
SellHomes(s) ==
    LET sorted == [i \in 1..Len(s.bids) |->
                      [s.bids[i] EXCEPT !.bids = SortBids(@)]]
        bidden == SelectSeq(sorted, LAMBDA e : Len(e.bids) > 0)
        allocs == [i \in 1..Len(bidden) |->
                      Allocation(bidden[i].property, bidden[i].bids)]
        s1 == [s EXCEPT !.bids = sorted, !.allocations = allocs]
        s2 == CompleteTransactions(s1, allocs, 1)
    IN IF s2.err # "none" THEN s2 ELSE [s2 EXCEPT !.bids = <<>>]

\* model.create_newcomer: a new Person without residence joins the newcomers
\* and the schedule
CreateNewcomer(s) ==
    LET p == s.next_person
        s1 == [s EXCEPT !.next_person = @ + 1, !.newcomers = @ \cup {p}]
    IN SchedAdd(s1, Ref("Person", p))

\* ------------------------------------------------------------------- Init
\* The i-th Person is constructed with Land i as residence_owned; the last
\* one may be constructed without (housed = FALSE), and its Land then has no
\* owner.
Home(p, housed) ==
    IF p \in ResidentIds /\ (housed \/ p < NumLand + NumResident)
    THEN p - NumLand ELSE None

Settler(l, housed) ==
    IF Home(l + NumLand, housed) = l THEN l + NumLand ELSE None

\* init_working_period: the last resident starts one step before retirement,
\* everyone else at 0
InitWorkingPeriod(p) ==
    IF p = NumLand + NumResident THEN WorkingPeriods ELSE 0

\* The simulation's objects after construction: nobody is in the workforce
\* sets and the Realtor's lists are empty.
ObjectsInit ==
    /\ newcomers = {} /\ workers = {} /\ retiring = {}
    /\ removed_agents = 0
    /\ next_person = NumLand + NumResident + 1
    /\ \E housed \in BOOLEAN :
        /\ residence = [p \in PersonIds |-> Home(p, housed)]
        /\ properties_owned =
             [p \in PersonIds |->
                IF Home(p, housed) = None THEN <<>> ELSE <<Home(p, housed)>>]
        /\ owner = [l \in LandIds |-> Settler(l, housed)]
        /\ resident = [l \in LandIds |-> Settler(l, housed)]
    /\ working_period = [p \in PersonIds |-> InitWorkingPeriod(p)]
    /\ count = [p \in PersonIds |-> 0]
    /\ savings = [p \in PersonIds |-> 0]
    /\ wage_premium = 1
    /\ sale_listing = <<>>
    /\ bids = <<>>
    /\ allocations = <<>>
    /\ steps = 0 /\ time = 0
    /\ last = [op |-> "init", arg |-> NoArg, err |-> "none"]

Registered0 ==
    {Ref("Land", l) : l \in LandIds}
        \cup {Ref("Person", p) : p \in ResidentIds}
        \cup {Ref("Firm", FirmId), Ref("Realtor", RealtorId)}

BreedOrder0 == <<"Land", "Firm", "Person", "Realtor">>

\* the schedule after the model added its Lands, the Firm, the residents and
\* the Realtor, in this order
Init ==
    /\ ObjectsInit
    /\ agents = [id \in {a.unique_id : a \in Registered0} |->
                    CHOOSE a \in Registered0 : a.unique_id = id]
    /\ agents_by_breed =
         [i \in 1..Len(BreedOrder0) |->
            LET ms == {a \in Registered0 : a.breed = BreedOrder0[i]}
            IN [breed |-> BreedOrder0[i],
                members |-> [id \in {a.unique_id : a \in ms} |->
                                CHOOSE a \in ms : a.unique_id = id]]]
    /\ first_added = BreedOrder0
    /\ first_seen = BreedOrder0

\* ---------------------------------------------------------------- actions
Ticking == steps < MaxSteps /\ \A p \in PersonIds : count[p] < MaxSteps

\* a breed joins a history of breeds the first time it shows up
FirstTime(h, b) ==
    IF \E i \in 1..Len(h) : h[i] = b THEN h ELSE Append(h, b)

\* schedule.step(by_breed=True)
Step ==
    /\ Ticking
    /\ \E w \in 1..MaxPremium : \E r \in StepResults(World, w) :
           SetWorld(r, "step", NoArg)

\* schedule.step_breed(b)
StepBreed ==
    /\ Ticking
    /\ \E b \in Breeds :
         \E w \in (IF b = "Firm" THEN 1..MaxPremium ELSE {wage_premium}) :
         \E r \in StepBreedResults(World, b, w) :
            SetWorld([r EXCEPT !.first_seen = FirstTime(@, b)],
                     "step_breed", BreedArg(b))

\* schedule.step_time()
StepTimeCall ==
    /\ steps < MaxSteps
    /\ SetWorld(StepTime(World), "step_time", NoArg)

\* schedule.get_breed_count(b)
GetBreedCountCall ==
    \E b \in Breeds :
        SetWorld([GetBreedCount(World, b) EXCEPT !.first_seen = FirstTime(@, b)],
                 "get_breed_count", NoArg)

LateAgents == {Ref("Bank", BankId), Ref("Investor", InvestorId)}

\* schedule.add(a) for an agent the model holds and has not scheduled yet
Add ==
    \E a \in LateAgents :
        /\ a.unique_id \notin DOMAIN agents
        /\ SetWorld([SchedAdd(World, a) EXCEPT
                        !.first_added = FirstTime(@, a.breed),
                        !.first_seen = FirstTime(@, a.breed)], "add", a)

\* model.create_newcomer()
CreateNewcomerCall ==
    /\ next_person \in PersonIds
    /\ SetWorld(CreateNewcomer(World), "create_newcomer", Ref("Person", next_person))

Scheduled(p) == Ref("Person", p) \in {agents[id] : id \in DOMAIN agents}

\* realtor.add_bid(p, l, price) for a scheduled newcomer, the Persons whose
\* bid() the model calls
AddBidCall ==
    /\ TotalBids(bids) < MaxBids
    /\ \E p \in newcomers, l \in LandIds, price \in 1..MaxPrice :
         /\ Scheduled(p)
         /\ SetWorld(AddBid(World, p, l, price), "add_bid", NoArg)

\* One tick's auction: the bids come in, more of them and at more prices
\* than in the simulation, from any scheduled Person and also with arguments
\* add_bid rejects, and sell_homes clears them.
Collecting == last.op # "sell_homes"

CreateBidder == Collecting /\ CreateNewcomerCall

Bidders ==
    {Ref("Person", p) : p \in {q \in PersonIds : Scheduled(q)}}
        \cup {Ref("Firm", FirmId), Ref("Investor", InvestorId)}

Properties ==
    {Ref("Land", l) : l \in LandIds} \cup {Ref("Person", NumLand + 1)}

PriceArgs == {Number(v) : v \in 1..BookPrice} \cup {NotANumber}

AddBidAny ==
    /\ Collecting
    /\ TotalBids(bids) < BookBids
    /\ \E bidder \in Bidders, property \in Properties, price \in PriceArgs :
         SetWorld(RealtorAddBid(World, bidder, property, price), "add_bid", NoArg)

\* realtor.sell_homes()
SellHomesCall ==
    LET r == SellHomes(World) IN
    /\ \A p \in PersonIds : Len(r.properties_owned[p]) <= MaxOwned
    /\ SetWorld(r, "sell_homes", NoArg)

\* the values R_NT, the Bank's denominator and the maximal mortgage take
Rents == (0 - MaxPrice)..MaxPrice
Denominators == {0 - 1, 0, 1}
Mortgages == 1..MaxPrice

\* person.bid() for a scheduled newcomer
BidCall ==
    \E p \in newcomers, rnt \in [LandIds -> Rents], den \in Denominators,
       M \in Mortgages, ieee \in BOOLEAN :
        LET r == PersonBid(World, p, rnt, den, M, ieee) IN
        /\ Scheduled(p)
        /\ sale_listing # <<>>
        /\ TotalBids(r.bids) <= MaxBids
        /\ SetWorld(r, "bid", Ref("Person", p))

\* The simulation: ticks, newcomers, bids and sales.
Next ==
    \/ Step
    \/ CreateNewcomerCall
    \/ AddBidCall
    \/ SellHomesCall

Spec == Init /\ [][Next]_vars

\* The market as the model runs it: ticks, newcomers, their bid() on the
\* properties on sale, and sales.
MarketNext ==
    \/ Step
    \/ CreateNewcomerCall
    \/ BidCall
    \/ SellHomesCall

MarketSpec == Init /\ [][MarketNext]_vars

\* The auction of one tick.
AuctionNext ==
    \/ CreateBidder
    \/ AddBidAny
    \/ SellHomesCall

AuctionSpec == Init /\ [][AuctionNext]_vars

\* The schedule: whole ticks, single breed passes, lookups and late adds.
BreedNext ==
    \/ Step
    \/ StepBreed
    \/ StepTimeCall
    \/ GetBreedCountCall
    \/ Add
    \/ CreateNewcomerCall

BreedSpec == Init /\ [][BreedNext]_vars

\* The scheduler's interface on its own: add and remove with any agent,
\* agents of two classes sharing unique_ids included, from the empty schedule.
SchedInit ==
    /\ ObjectsInit
    /\ agents = EmptyDict
    /\ agents_by_breed = <<>>
    /\ first_added = <<>>
    /\ first_seen = <<>>

SchedAddCall ==
    \E a \in SchedAgents :
        SetWorld([SchedAdd(World, a) EXCEPT
                    !.first_added = FirstTime(@, a.breed),
                    !.first_seen = FirstTime(@, a.breed)], "add", a)

SchedRemoveCall ==
    \E a \in SchedAgents :
        SetWorld([SchedRemove(World, a) EXCEPT
                    !.first_seen = IF a.unique_id \in DOMAIN agents
                                   THEN FirstTime(@, a.breed) ELSE @],
                 "remove", a)

SchedNext ==
    \/ SchedAddCall
    \/ SchedRemoveCall

SchedSpec == SchedInit /\ [][SchedNext]_vars

\* ============================================================= properties
MaxOf(S) == CHOOSE x \in S : \A y \in S : y <= x

Prices(list) == {list[i].price : i \in 1..Len(list)}

\* the highest price of a bid list with one of the highest bids taken out,
\* 0 when nothing is left
SecondPrice(list) ==
    LET top == CHOOSE i \in 1..Len(list) : list[i].price = MaxOf(Prices(list))
        rest == {list[i].price : i \in 1..Len(list) \ {top}}
    IN IF rest = {} THEN 0 ELSE MaxOf(rest)

AllocationsFor(allocs, l) == {i \in 1..Len(allocs) : allocs[i].property = l}

BiddenLands(book) == {book[i].property : i \in {j \in 1..Len(book) : Len(book[j].bids) > 0}}

\* C1: sell_homes builds, for every property with a bid, an Allocation whose
\* final_price and highest_bid are the highest bid price p1, whose
\* second_highest_bid is the next price p2 (0 for a single bid) and whose
\* successful_bidder submitted a bid of price p1.
C1_AllocationTakesHighestBid ==
    [][last'.op = "sell_homes" =>
        \A l \in BiddenLands(bids) :
            /\ AllocationsFor(allocations', l) # {}
            /\ \A i \in AllocationsFor(allocations', l) :
                LET a == allocations'[i]
                    list == BidsOf(bids, l)
                IN /\ a.final_price = MaxOf(Prices(list))
                   /\ a.highest_bid = MaxOf(Prices(list))
                   /\ a.second_highest_bid = SecondPrice(list)
                   /\ \E k \in 1..Len(list) :
                        /\ list[k].price = a.final_price
                        /\ list[k].bidder = a.successful_bidder]_vars

\* three bids at three prices were cleared: the highest and the middle price
\* are on the Allocation
C1_Witness ==
    /\ last.op = "sell_homes" /\ last.err = "none"
    /\ \E i \in 1..Len(allocations) :
         /\ allocations[i].final_price = 3
         /\ allocations[i].second_highest_bid = 2
         /\ Len(properties_owned[allocations[i].successful_bidder]) = 2

\* C2: sell_homes returns exactly one Allocation for each property with a
\* bid and none for any other; a listed property without a bid stays listed
\* with its owner and resident.
C2_OneAllocationPerBiddenProperty ==
    [][last'.op = "sell_homes" =>
        /\ last'.err = "none"
        /\ \A l \in LandIds :
             Cardinality(AllocationsFor(allocations', l)) =
                 IF l \in BiddenLands(bids) THEN 1 ELSE 0
        /\ \A l \in LandIds \ BiddenLands(bids) :
             /\ InList(l, sale_listing) => InList(l, sale_listing')
             /\ owner'[l] = owner[l]
             /\ resident'[l] = resident[l]]_vars

\* C3: the bid book is empty after every call of sell_homes, also after one
\* whose settlement failed.
C3_BidBookEmptyAfterSellHomes ==
    last.op = "sell_homes" => bids = <<>>

Owners(l) == {p \in PersonIds : InList(l, properties_owned[p])}

\* C4: a settled allocation leaves the property with the buyer, not with the
\* seller, and owned by the buyer; and in no state two agents hold one
\* property in properties_owned.
C4_TransferExclusive ==
    [][/\ \A l \in LandIds : Cardinality(Owners(l)') <= 1
       /\ (last'.op = "sell_homes" /\ last'.err = "none") =>
            \A i \in 1..Len(allocations') :
                LET l == allocations'[i].property
                    buyer == allocations'[i].successful_bidder
                    seller == owner[l]
                IN seller # buyer =>
                     /\ InList(l, properties_owned'[buyer])
                     /\ seller # None => ~InList(l, properties_owned'[seller])
                     /\ owner'[l] = buyer]_vars

PersonKeys(abb) == DOMAIN Members(abb, "Person")

\* the scheduled newcomers without residence
Homeless == {p \in newcomers \cap PersonKeys(agents_by_breed) : residence[p] = None}

\* C5: a tick removes every scheduled newcomer without residence from the
\* global registry, the Person partition and the three workforce sets, and
\* counts each of them once in removed_agents.
C5_HomelessNewcomerRemoved ==
    [][last'.op = "step" =>
        /\ \A p \in Homeless :
             /\ p \notin DOMAIN agents'
             /\ p \notin PersonKeys(agents_by_breed')
             /\ p \notin newcomers' \cup workers' \cup retiring'
        /\ removed_agents' = removed_agents + Cardinality(Homeless)]_vars

\* a tick has removed two newcomers at once
C5_Witness ==
    /\ last.op = "step"
    /\ removed_agents = 2
    /\ steps = 1
    /\ \A p \in PersonIds \ ResidentIds : p \notin DOMAIN agents /\ p < next_person

\* C6: step(by_breed=True) leaves no breed with more agents than it had.
C6_NoBreedGrowsInStep ==
    [][last'.op = "step" =>
        \A b \in Breeds :
            Cardinality(DOMAIN Members(agents_by_breed', b))
                <= Cardinality(DOMAIN Members(agents_by_breed, b))]_vars

\* a tick ran while a newcomer was scheduled, and the Person breed shrank
C6_Witness ==
    /\ last.op = "step"
    /\ Cardinality(PersonKeys(agents_by_breed)) = NumResident
    /\ removed_agents = 1
    /\ next_person = NumLand + NumResident + 2

\* the breeds of the passes of one step(by_breed=True), in the order they ran
PassBreeds(r) == [k \in 1..Len(r.passes) |-> r.passes[k].breed]

\* the calls of step() made during the k-th pass
Visits(r, k) == {i \in 1..Len(r.log) : r.log[i].pass = k}

\* one pass at a time, step() once on every member the breed had when its
\* pass started and on no one else, and steps and time one higher
OnePassPerBreed(r) ==
    /\ r.err = "none"
    /\ \A i, j \in 1..Len(r.log) : i < j => r.log[i].pass <= r.log[j].pass
    /\ \A k \in 1..Len(r.passes) :
         /\ \A i \in Visits(r, k) :
              /\ r.log[i].agent.breed = r.passes[k].breed
              /\ r.log[i].agent.unique_id \in r.passes[k].keys
         /\ \A id \in r.passes[k].keys :
              Cardinality({i \in Visits(r, k) : r.log[i].agent.unique_id = id}) = 1
    /\ \A i \in 1..Len(r.log) : r.log[i].pass \in 1..Len(r.passes)
    /\ r.steps = steps + 1
    /\ r.time = time + 1

WasAdded(b) == \E i \in 1..Len(first_added) : first_added[i] = b

\* C7 as stated: step(by_breed=True) visits the breeds in the order in which
\* each was first added, one whole pass after the other, calls step() exactly
\* once on every member a breed has when its pass starts, and adds 1 to
\* steps and to time.
C7_BreedsInOrderOfFirstAdd ==
    Ticking => \A w \in 1..MaxPremium : \A r \in StepResults(Traced, w) :
        /\ SelectSeq(PassBreeds(r), WasAdded) = first_added
        /\ OnePassPerBreed(r)

\* C7 amended: step(by_breed=True) visits the breeds in the order in which
\* their partitions were created, by the first add or by an earlier lookup
\* of the breed (get_breed_count, step_breed), one whole pass after the other,
\* calls step() exactly once on every member a breed has when its pass
\* starts, and adds 1 to steps and to time.
C7_BreedsInOrderOfFirstLookup ==
    Ticking => \A w \in 1..MaxPremium : \A r \in StepResults(Traced, w) :
        /\ PassBreeds(r) = first_seen
        /\ OnePassPerBreed(r)

\* a tick ran over a Bank added before the Investor whose breed was looked
\* up first, and removed a newcomer on the way
C7_Witness ==
    /\ last.op = "step"
    /\ steps = 1 /\ time = 1
    /\ removed_agents = 1
    /\ BankId \in DOMAIN Members(agents_by_breed, "Bank")
    /\ InvestorId \in DOMAIN Members(agents_by_breed, "Investor")
    /\ first_added # first_seen
    /\ BreedKeys(agents_by_breed) = first_seen

\* the agent's id is taken in the partition of its breed
Collides(a) == a.unique_id \in DOMAIN Members(agents_by_breed, a.breed)

\* C8: add(agent) fails when its unique_id is already registered under its
\* breed, and leaves the registered agent in the global registry and in the
\* breed partition.
C8_AddRejectsCollision ==
    [][(last'.op = "add" /\ Collides(last'.arg)) =>
          /\ last'.err # "none"
          /\ agents' = agents
          /\ agents_by_breed' = agents_by_breed]_vars

\* the agent is the one the global registry and the partition of its breed
\* hold under its unique_id
Registered(a) ==
    /\ a.unique_id \in DOMAIN agents
    /\ agents[a.unique_id] = a
    /\ Collides(a)
    /\ Members(agents_by_breed, a.breed)[a.unique_id] = a

Absent(a) ==
    ~(Collides(a) /\ Members(agents_by_breed, a.breed)[a.unique_id] = a)

\* C10: remove(agent) on an agent that is not registered under its breed
\* raises and changes neither the global registry nor any partition.
C10_RemoveAbsentIsNoOp ==
    [][(last'.op = "remove" /\ Absent(last'.arg)) =>
          /\ last'.err # "none"
          /\ agents' = agents
          /\ agents_by_breed' = agents_by_breed]_vars

SetsOf(p) ==
    (IF p \in newcomers THEN {"newcomers"} ELSE {})
        \cup (IF p \in workers THEN {"workers"} ELSE {})
        \cup (IF p \in retiring THEN {"retiring"} ELSE {})

\* C12: in every state reached through Person.step and the Realtor's
\* operations each Person is in at most one of newcomers, workers and
\* retiring.
C12_AtMostOneWorkforceSet ==
    \A p \in PersonIds : Cardinality(SetsOf(p)) <= 1

\* the scheduled Persons whose next step finds them with a residence, in
\* neither newcomers nor retiring, and past model.working_periods
Retirees ==
    {p \in PersonKeys(agents_by_breed) :
        /\ residence[p] # None
        /\ p \notin newcomers \cup retiring
        /\ working_period[p] + 1 > WorkingPeriods}

Count(list, x) == Cardinality({i \in 1..Len(list) : list[i] = x})

\* C13 as stated: a tick puts every such Person into retiring and appends
\* its residence to sale_listing, whether or not the Person owns it.
C13_RetireeListsResidence ==
    [][last'.op = "step" =>
        /\ \A p \in Retirees : p \in retiring'
        /\ \A l \in LandIds :
             Count(sale_listing', l) =
                 Count(sale_listing, l)
                     + Cardinality({p \in Retirees : residence[p] = l})]_vars

\* C13 amended: a tick puts every such Person into retiring and appends its
\* residence to sale_listing if the residence is in the Person's
\* properties_owned; a residence that is not is not listed.
C13_RetireeListsOwnedResidence ==
    [][last'.op = "step" =>
        /\ \A p \in Retirees : p \in retiring'
        /\ \A l \in LandIds :
             Count(sale_listing', l) =
                 Count(sale_listing, l)
                     + Cardinality({p \in Retirees :
                                      /\ residence[p] = l
                                      /\ InList(l, properties_owned[p])})]_vars

\* a tick has retired a Person whose residence it owns and has listed, and a
\* Person whose residence was sold to someone else and is not listed
C13_Witness ==
    /\ last.op = "step"
    /\ \E p \in retiring :
         /\ residence[p] # None
         /\ InList(residence[p], properties_owned[p])
         /\ InList(residence[p], sale_listing)
    /\ \E p \in retiring :
         /\ residence[p] # None
         /\ ~InList(residence[p], properties_owned[p])
         /\ ~InList(residence[p], sale_listing)

\* the call just made was a sell_homes that built an Allocation for a
\* property Person p owned
SoldBy(p) ==
    /\ last'.op = "sell_homes"
    /\ \E i \in 1..Len(allocations') : owner[allocations'[i].property] = p

\* C14: a retiring Person is registered in the scheduler; no call removes it
\* (Person.step in particular) except a sell_homes that settles a sale of a
\* property it owns, and after a settlement that returned it is in neither
\* the global registry, nor the Person partition, nor a workforce set.
C14_RetiringStaysUntilSold ==
    [][\A p \in retiring :
         /\ p \in DOMAIN agents /\ p \in PersonKeys(agents_by_breed)
         /\ ~SoldBy(p) =>
              /\ p \in DOMAIN agents'
              /\ p \in PersonKeys(agents_by_breed')
              /\ p \in retiring'
         /\ (SoldBy(p) /\ last'.err = "none") =>
              /\ p \notin DOMAIN agents'
              /\ p \notin PersonKeys(agents_by_breed')
              /\ p \notin newcomers' \cup workers' \cup retiring']_vars

\* a Person retired in one tick, went through the next tick as retiring (its
\* working_period is two past model.working_periods) and was removed by the
\* sale of the residence it listed
C14_Witness ==
    /\ last.op = "sell_homes" /\ last.err = "none"
    /\ \E p \in ResidentIds :
         /\ working_period[p] > WorkingPeriods + 1
         /\ p \notin DOMAIN agents
         /\ p \notin newcomers \cup workers \cup retiring
         /\ InList(residence[p], sale_listing)
         /\ owner[residence[p]] \in PersonKeys(agents_by_breed)
    /\ removed_agents >= 1

BookKeys(book) == [i \in 1..Len(book) |-> book[i].property]

ValidBid(bidder, property, price) ==
    bidder.breed = "Person" /\ property.breed = "Land" /\ price.numeric

\* C15: add_bid with a bidder that is not a Person, a property that is not
\* a Land or a price that is not a number raises and leaves the bid book as
\* it was; with valid arguments it appends one Bid of the bidder at the price
\* to the end of the property's bid list (a new list, after the others, when
\* the property had none) and leaves every other list as it was.
C15_AddBidValidates ==
    \A bidder \in Bidders, property \in Properties, price \in PriceArgs :
        LET r == RealtorAddBid(World, bidder, property, price)
            l == property.unique_id
        IN IF ~ValidBid(bidder, property, price)
           THEN r.err # "none" /\ r.bids = bids
           ELSE /\ r.err = "none"
                /\ BidsOf(r.bids, l) =
                     Append(BidsOf(bids, l), Bid(bidder.unique_id, l, price.value))
                /\ \A k \in LandIds \ {l} : BidsOf(r.bids, k) = BidsOf(bids, k)
                /\ BookKeys(r.bids) =
                     IF HasKey(bids, l) THEN BookKeys(bids)
                     ELSE Append(BookKeys(bids), l)
                /\ TotalBids(r.bids) = TotalBids(bids) + 1

\* a call with a wrong argument has just failed on a book that holds a bid
\* on each Land
C15_Witness ==
    /\ last.op = "add_bid" /\ last.err = "ValueError"
    /\ TotalBids(bids) = 2
    /\ \A l \in LandIds : Len(BidsOf(bids, l)) >= 1

\* C16: with a Bank denominator that is zero or negative, Person.bid raises
\* nothing and places no bid.  (The denominator does not depend on the
\* property, so it is zero or negative for every property on sale at once.)
C16_NoBidOnNonPositiveDenominator ==
    \A p \in newcomers, rnt \in [LandIds -> Rents], M \in Mortgages,
       ieee \in BOOLEAN :
    \A den \in {d \in Denominators : d <= 0} :
        LET r == PersonBid(World, p, rnt, den, M, ieee) IN
        /\ r.err = "none"
        /\ r.bids = bids

\* the positions of the bids at the highest price of a bid list
TopBids(list) == {i \in 1..Len(list) : list[i].price = MaxOf(Prices(list))}

\* the first of a non-empty set of positions
FirstOf(S) == CHOOSE i \in S : \A j \in S : i <= j

\* C17: when two or more bids on a property share the highest price,
\* sell_homes awards the property to the bidder of the one that add_bid
\* appended first, and second_highest_bid is that price.
C17_TieGoesToFirstBid ==
    [][last'.op = "sell_homes" =>
        \A l \in BiddenLands(bids) :
            LET list == BidsOf(bids, l) IN
            Cardinality(TopBids(list)) >= 2 =>
                \A i \in AllocationsFor(allocations', l) :
                    /\ allocations'[i].successful_bidder =
                           list[FirstOf(TopBids(list))].bidder
                    /\ allocations'[i].second_highest_bid = MaxOf(Prices(list))
                    /\ allocations'[i].final_price = MaxOf(Prices(list))]_vars

\* a Land was sold at a price that its second-ranked bid equals, so two bids
\* shared the highest price (a lone bid has second_highest_bid = 0), and the
\* sale was settled on the winner
C17_Witness ==
    /\ last.op = "sell_homes" /\ last.err = "none"
    /\ \E i \in 1..Len(allocations) :
         /\ allocations[i].final_price = 2
         /\ allocations[i].second_highest_bid = 2
         /\ allocations[i].successful_bidder = NumLand + 2
         /\ owner[allocations[i].property] = NumLand + 2
         /\ residence[NumLand + 2] = allocations[i].property
    /\ NumLand + 3 \in DOMAIN agents

\* a Land that transfer_property cannot take from its seller: it has no owner,
\* or its owner does not hold it in properties_owned
NotSellable(l) == owner[l] = None \/ ~InList(l, properties_owned[owner[l]])

\* C18: when sell_homes settles an allocation whose property the seller does
\* not hold (a property without owner included), the allocation is skipped:
\* the call raises nothing, the buyer's properties_owned does not gain the
\* property, the owner field stays, and every allocation of the call whose
\* seller holds the property is settled on its successful bidder.
C18_UnsellableAllocationSkipped ==
    [][last'.op = "sell_homes" =>
        \A i \in 1..Len(allocations') :
            LET l == allocations'[i].property
                b == allocations'[i].successful_bidder
            IN NotSellable(l) =>
                /\ last'.err = "none"
                /\ Count(properties_owned'[b], l) = Count(properties_owned[b], l)
                /\ owner'[l] = owner[l]
                /\ \A j \in 1..Len(allocations') :
                       ~NotSellable(allocations'[j].property) =>
                           owner'[allocations'[j].property] =
                               allocations'[j].successful_bidder]_vars

\* C19: when sell_homes settles an allocation whose seller is a Person that
\* is not in retiring, the call raises nothing, the seller is still
\* scheduled and in the workforce sets it was in, and every allocation of the
\* call is settled on its successful bidder.
C19_NonRetiringSellerKept ==
    [][last'.op = "sell_homes" =>
        \A i \in 1..Len(allocations') :
            LET l == allocations'[i].property
                seller == owner[l]
            IN (/\ ~NotSellable(l)
                /\ seller \notin retiring
                /\ owner'[l] = allocations'[i].successful_bidder) =>
                /\ last'.err = "none"
                /\ seller \in DOMAIN agents'
                /\ (seller \in workers <=> seller \in workers')
                /\ seller \notin retiring'
                /\ \A j \in 1..Len(allocations') :
                       owner'[allocations'[j].property] =
                           allocations'[j].successful_bidder]_vars

\* the scheduled Persons whose next step finds them with a residence, in
\* neither newcomers nor retiring, and not past model.working_periods
Employable ==
    {p \in PersonKeys(agents_by_breed) :
        /\ residence[p] # None
        /\ p \notin newcomers \cup retiring
        /\ working_period[p] + 1 <= WorkingPeriods}

\* C20: after a tick, each such Person is in workers if and only if the
\* Firm's wage premium, which the Firm's pass set before the Persons' pass,
\* is strictly greater than the transport cost of the Person's residence.
C20_WorkerIffPremiumAboveCost ==
    [][last'.op = "step" /\ last'.err = "none" =>
        \A p \in Employable :
            /\ working_period'[p] = working_period[p] + 1
            /\ p \in workers' <=> wage_premium' > transport_cost[residence[p]]]_vars

\* a tick has left one Person, whose residence costs less than the wage
\* premium, in workers, and outside workers another Person, whose residence
\* costs exactly the wage premium
C20_Witness ==
    /\ last.op = "step" /\ last.err = "none"
    /\ \E p, q \in PersonKeys(agents_by_breed) :
         /\ residence[p] # None /\ residence[q] # None
         /\ {p, q} \cap (newcomers \cup retiring) = {}
         /\ working_period[p] <= WorkingPeriods
         /\ working_period[q] <= WorkingPeriods
         /\ wage_premium > transport_cost[residence[p]]
         /\ wage_premium = transport_cost[residence[q]]
         /\ p \in workers /\ q \notin workers

\* list old is the beginning of list new
IsPrefix(old, new) ==
    Len(old) <= Len(new) /\ SubSeq(new, 1, Len(old)) = old

\* C21: whatever the rents, the Bank's denominator and the maximal mortgage,
\* Person.bid only appends to the bid lists, every bid it appends is the
\* Person's own and has a price above zero, and the bid list of a property on
\* sale whose computed price is zero or negative is left as it was.
C21_BidsPlacedArePositive ==
    \A p \in newcomers, rnt \in [LandIds -> Rents], den \in Denominators,
       M \in Mortgages, ieee \in BOOLEAN :
        LET r == PersonBid(World, p, rnt, den, M, ieee) IN
        \A l \in LandIds :
            LET old == BidsOf(bids, l)
                new == BidsOf(r.bids, l)
                b == BidPrice(rnt[l], den, savings[p], M, ieee)
            IN /\ IsPrefix(old, new)
               /\ \A i \in (Len(old) + 1)..Len(new) :
                      new[i].price > 0 /\ new[i].bidder = p
               /\ (b.err = "none" /\ b.price5 <= 0) => new = old
               /\ (r.err = "none" /\ b.price5 > 0) =>
                      Len(new) = Len(old) + Count(sale_listing, l)

\* a newcomer's bid() has run over two Lands on sale and has bid on one of
\* them only
C21_Witness ==
    /\ last.op = "bid" /\ last.err = "none"
    /\ \E i, j \in 1..Len(sale_listing) :
         /\ Len(BidsOf(bids, sale_listing[i])) >= 1
         /\ Len(BidsOf(bids, sale_listing[j])) = 0

\* C22: once sell_homes has returned, every Land whose resident is a Person
\* still scheduled is that Person's residence, so no scheduled Person is
\* the resident of two Lands.
C22_ResidentMatchesResidence ==
    (last.op = "sell_homes" /\ last.err = "none") =>
        \A l \in LandIds : \A p \in PersonKeys(agents_by_breed) :
            resident[l] = p => residence[p] = l

\* C23: a property that sell_homes has transferred to its successful bidder
\* is not on sale_listing when the call is over.
C23_SoldPropertyLeavesListing ==
    [][last'.op = "sell_homes" =>
        \A i \in 1..Len(allocations') :
            LET l == allocations'[i].property IN
            (~NotSellable(l) /\ owner'[l] = allocations'[i].successful_bidder) =>
                ~InList(l, sale_listing')]_vars

\* the members of a list
Elements(list) == {list[i] : i \in 1..Len(list)}

\* C24: whatever order the shuffle puts the Persons in, one pass over the
\* Person breed ends with the same newcomers, workers and retiring, the same
\* Persons removed, the same savings and working_period of every Person and
\* the same set of properties on sale_listing.
C24_PersonPassOrderIndependent ==
    Ticking =>
      \A w \in 1..MaxPremium :
      \A r1, r2 \in StepBreedResults([World EXCEPT !.wage_premium = w], "Person", w) :
        /\ r1.err = "none"
        /\ r1.newcomers = r2.newcomers
        /\ r1.workers = r2.workers
        /\ r1.retiring = r2.retiring
        /\ DOMAIN r1.agents = DOMAIN r2.agents
        /\ PersonKeys(r1.agents_by_breed) = PersonKeys(r2.agents_by_breed)
        /\ r1.removed_agents = r2.removed_agents
        /\ r1.savings = r2.savings
        /\ r1.working_period = r2.working_period
        /\ Elements(r1.sale_listing) = Elements(r2.sale_listing)

\* a newcomer without residence and two Persons about to retire are
\* scheduled, and two orders of the pass over them leave sale_listing in
\* different orders
C24_Witness ==
    /\ Ticking
    /\ Homeless # {}
    /\ Cardinality(Retirees) >= 2
    /\ \E r1, r2 \in StepBreedResults(World, "Person", wage_premium) :
          /\ r1.sale_listing # r2.sale_listing
          /\ r1.removed_agents = removed_agents + Cardinality(Homeless)

\* the calls that advance the scheduler's counters
ClockCalls == {"step", "step_time"}

\* step_breed(b) calls step() on members of breed b only, once each, and
\* returns with steps and time as they were
BreedPassOnly(b, w) ==
    \A r \in StepBreedResults(Traced, b, w) :
        /\ r.steps = steps /\ r.time = time
        /\ \A i \in 1..Len(r.log) : r.log[i].agent.breed = b
        /\ {r.log[i].agent.unique_id : i \in 1..Len(r.log)}
               = DOMAIN Members(agents_by_breed, b)
        /\ Len(r.log) = Cardinality(DOMAIN Members(agents_by_breed, b))

\* C25: step_breed(b) calls step() only on the agents of breed b and leaves
\* steps and time as they were, as does every call other than
\* step(by_breed=True) and step_time(); each of these two adds exactly 1 to
\* steps and to time.  A pass over another breed than Person leaves every
\* Person's count and working_period alone, and only the Firm's pass sets the
\* wage premium.
C25_OnlyClockCallsAdvanceTime ==
    /\ [](Ticking => \A b \in Breeds : \A w \in 1..MaxPremium : BreedPassOnly(b, w))
    /\ [][/\ last'.op \in ClockCalls /\ last'.err = "none" =>
                steps' = steps + 1 /\ time' = time + 1
          /\ last'.op \notin ClockCalls => steps' = steps /\ time' = time
          /\ last'.op = "step_breed" /\ last'.arg.breed # "Person" =>
                count' = count /\ working_period' = working_period
          /\ last'.op = "step_breed" /\ last'.arg.breed # "Firm" =>
                wage_premium' = wage_premium]_vars

\* after one tick a single pass over the Persons has stepped them a second
\* time, and steps and time still stand at 1
C25_Witness ==
    /\ last.op = "step_breed" /\ last.arg.breed = "Person" /\ last.err = "none"
    /\ steps = 1 /\ time = 1
    /\ \E p \in PersonKeys(agents_by_breed) : count[p] = 2

\* the calls that run inside a tick or place bids
PassCalls == {"step", "bid"}

\* C26: a tick (with every Person.step and the Realtor's step in it) and
\* Person.bid build no Allocation and leave every Land's owner and resident
\* and every Person's properties_owned as they were; a call that changes one
\* of them is sell_homes.
C26_NoClearingInsidePass ==
    [][/\ last'.op \in PassCalls =>
            /\ allocations' = <<>>
            /\ owner' = owner
            /\ resident' = resident
            /\ properties_owned' = properties_owned
       /\ (\/ allocations' # <<>>
           \/ owner' # owner
           \/ resident' # resident
           \/ properties_owned' # properties_owned) => last'.op = "sell_homes"]_vars

\* a tick has run over a bid book that holds a bid on a Land on sale, and
\* the Land is still its seller's
C26_Witness ==
    /\ last.op = "step" /\ last.err = "none"
    /\ allocations = <<>>
    /\ \E l \in LandIds :
         /\ InList(l, sale_listing)
         /\ Len(BidsOf(bids, l)) >= 1
         /\ owner[l] \in retiring
         /\ resident[l] = owner[l]
         /\ \A i \in 1..Len(BidsOf(bids, l)) :
                ~InList(l, properties_owned[BidsOf(bids, l)[i].bidder])

\* the values of firm.density: none, one or more workers per agent, and a
\* negative value
Densities == (0 - 1)..MaxDensity

\* C27: get_N returns density times the number of workers when the city is
\* centred and four times that otherwise, except that it returns 1 when the
\* product is 0; so the N that Firm.step takes from it is never 0.
C27_PopulationNeverZero ==
    \A density \in Densities : \A center_city \in BOOLEAN :
        LET product == (IF center_city THEN 1 ELSE 4) * density * Cardinality(workers)
            N == GetN(World, density, center_city)
        IN /\ product # 0 => N = product
           /\ product = 0 => N = 1
           /\ N # 0

\* a tick has left one Person in workers: get_N then gives the density, four
\* times the density for a city in the corner, and 1 for a density of zero
C27_Witness ==
    /\ last.op = "step" /\ last.err = "none"
    /\ Cardinality(workers) = 1
    /\ GetN(World, MaxDensity, TRUE) = MaxDensity
    /\ GetN(World, MaxDensity, FALSE) = 4 * MaxDensity
    /\ GetN(World, 0, FALSE) = 1

\* the agent is the one the global registry holds under its unique_id
InRegistry(a) == a.unique_id \in DOMAIN agents /\ agents[a.unique_id] = a

\* the agent is the one the partition of breed b holds under its unique_id
InPartition(a, b) ==
    /\ a.unique_id \in DOMAIN Members(agents_by_breed, b)
    /\ Members(agents_by_breed, b)[a.unique_id] = a

\* C28: after every sequence of add and remove calls an agent is in the
\* global registry if and only if it is in the partition of its own breed,
\* and it is in the partition of no other breed.
C28_RegistryMatchesPartitions ==
    \A a \in SchedAgents :
        /\ InRegistry(a) <=> InPartition(a, a.breed)
        /\ \A b \in SchedBreeds \ {a.breed} : ~InPartition(a, b)

====
